---- MODULE Spec2Model ----
(***************************************************************************)
(* The payment system of src/js/script.js (section 4): the module-level    *)
(* currentAmount, the amount selection handlers of initPaymentAmount with  *)
(* renderQR, and the asynchronous verifyPayment submit handler with its    *)
(* bounded polling loop.  Every invocation of verifyPayment is one         *)
(* "session" with its own locals (attempts, isPaid); the DOM elements it   *)
(* writes (#payment-status, #btn-confirm) and currentAmount are shared by  *)
(* all invocations.  The handler suspends at its awaits; each resumption   *)
(* is one action.                                                          *)
(***************************************************************************)
EXTENDS Integers, Sequences, FiniteSets

\* ------------------------------------------------------------------ bounds
MaxAmount == 2
MaxRecords == 2
MaxSessions == 2
MaxInputLen == 3

\* --------------------------------------------------------- PAYMENT_CONFIG
MAX_ATTEMPTS == 5

\* ------------------------------------------------------------ JS values
\* A JavaScript string is a sequence of one-character strings.
DigitChars == <<"0", "1", "2", "3", "4", "5", "6", "7", "8", "9">>
HexChars == DigitChars \o <<"a", "b", "c", "d", "e", "f">>
WhiteSpace == {" "}

IndexOf(c, chars) ==
  IF \E i \in 1..Len(chars) : chars[i] = c
  THEN (CHOOSE i \in 1..Len(chars) : chars[i] = c) - 1
  ELSE -1

\* A JavaScript number as far as the payment code can tell: NaN or an integer.
NaN == [nan |-> TRUE, v |-> 0]
Num(n) == [nan |-> FALSE, v |-> n]

RECURSIVE DigitsOf(_)
DigitsOf(n) ==
  IF n < 10 THEN <<DigitChars[n + 1]>>
  ELSE DigitsOf(n \div 10) \o <<DigitChars[(n % 10) + 1]>>

\* String(n) for an integer n.
NumberToString(n) == IF n < 0 THEN <<"-">> \o DigitsOf(0 - n) ELSE DigitsOf(n)

RECURSIVE SkipWhite(_)
SkipWhite(s) ==
  IF s # <<>> /\ Head(s) \in WhiteSpace THEN SkipWhite(Tail(s)) ELSE s

\* The longest prefix of s made of digits of the radix, as a number; acc is
\* the value read so far and seen tells whether a digit was read.
RECURSIVE ReadDigits(_, _, _, _)
ReadDigits(s, radix, acc, seen) ==
  IF s # <<>> /\ IndexOf(Head(s), HexChars) >= 0 /\ IndexOf(Head(s), HexChars) < radix
  THEN ReadDigits(Tail(s), radix, acc * radix + IndexOf(Head(s), HexChars), TRUE)
  ELSE IF seen THEN Num(acc) ELSE NaN

\* parseInt(string) with no radix argument.
ParseIntStr(str) ==
  LET s0 == SkipWhite(str)
      neg == s0 # <<>> /\ Head(s0) = "-"
      s1 == IF s0 # <<>> /\ Head(s0) \in {"-", "+"} THEN Tail(s0) ELSE s0
      hex == Len(s1) >= 2 /\ s1[1] = "0" /\ s1[2] = "x"
      r == IF hex THEN ReadDigits(Tail(Tail(s1)), 16, 0, FALSE)
           ELSE ReadDigits(s1, 10, 0, FALSE)
  IN IF r.nan THEN NaN ELSE IF neg THEN Num(0 - r.v) ELSE r

\* A value held by a property of a feed row: undefined, a number or a string.
Undefined == [t |-> "undefined", n |-> 0, s |-> <<>>]
NumVal(n) == [t |-> "number", n |-> n, s |-> <<>>]
StrVal(s) == [t |-> "string", n |-> 0, s |-> s]

\* Truthiness as used by the || operator.
Truthy(x) ==
  CASE x.t = "undefined" -> FALSE
    [] x.t = "number" -> x.n # 0
    [] x.t = "string" -> x.s # <<>>

\* a || b
Or(a, b) == IF Truthy(a) THEN a ELSE b

\* parseInt(x): the argument is converted to a string first.
ParseInt(x) ==
  CASE x.t = "undefined" -> NaN
    [] x.t = "number" -> ParseIntStr(NumberToString(x.n))
    [] x.t = "string" -> ParseIntStr(x.s)

\* a === b for the result of parseInt against a number.
StrictEquals(a, n) == ~a.nan /\ a.v = n

RECURSIVE GroupThousands(_)
GroupThousands(ds) ==
  IF Len(ds) <= 3 THEN ds
  ELSE GroupThousands(SubSeq(ds, 1, Len(ds) - 3)) \o <<".">> \o SubSeq(ds, Len(ds) - 2, Len(ds))

\* new Intl.NumberFormat("vi-VN").format(value) for an integer value.
formatPrice(value) ==
  IF value < 0 THEN <<"-">> \o GroupThousands(DigitsOf(0 - value))
  ELSE GroupThousands(DigitsOf(value))

\* ------------------------------------------------------------- the feed
\* The values a row of the feed may hold under SoTien or amount.
FieldVals ==
  {Undefined, StrVal(<<"x">>), StrVal(NumberToString(MaxAmount))}
    \cup {NumVal(n) : n \in 0..MaxAmount}

\* The rows of the feed: objects with the properties SoTien and amount.
TxSet ==
  [SoTien : FieldVals,
   amount : {Undefined, NumVal(1), StrVal(NumberToString(MaxAmount))}]

\* The arrays a response may carry in its data property.
Bodies == UNION {[1..n -> TxSet] : n \in 0..MaxRecords}

\* const txAmount = parseInt(tx.SoTien || tx.amount || 0)
TxAmount(tx) == ParseInt(Or(Or(tx.SoTien, tx.amount), NumVal(0)))

\* A comparison with a tolerance in place of ===.
IsMatchAtLeast(tx, amount) == ~TxAmount(tx).nan /\ TxAmount(tx).v >= amount

\* The callback of data.data.find: txAmount === currentAmount.
IsMatch(tx, amount) == StrictEquals(TxAmount(tx), amount)

\* Array.prototype.find: the index of the first row the callback accepts,
\* 0 standing for undefined.
Find(rows, amount) ==
  IF \E i \in 1..Len(rows) : IsMatch(rows[i], amount)
  THEN CHOOSE i \in 1..Len(rows) :
         IsMatch(rows[i], amount) /\ \A j \in 1..(i - 1) : ~IsMatch(rows[j], amount)
  ELSE 0

\* What a response holds, seen from outside the handler: no row at all, a row
\* whose amount is the given amount, or rows with other amounts only.
RowsClass(rows, amount) ==
  IF rows = <<>> THEN "empty"
  ELSE IF \E i \in 1..Len(rows) : TxAmount(rows[i]) = Num(amount) THEN "equal"
  ELSE "other"

\* The ways one fetch of the feed can settle, other than with an array:
\*   reject    fetch() rejects (network error)
\*   notok     a response with response.ok false
\*   badjson   response.json() rejects (the body is no JSON)
\*   nodata    the body is an object with no data property
\*   notarray  the data property is an object that is no array
FailureKinds == {"reject", "notok", "badjson", "notarray"}
Amounts == 0..MaxAmount

\* For each current amount, what the scan of lines 418-423 makes of the arrays
\* of Bodies: whether find returned a row, and the class of the array.
ScanResults ==
  [a \in Amounts |-> {[found |-> Find(b, a) # 0, class |-> RowsClass(b, a)] : b \in Bodies}]

\* ------------------------------------------------------------ the page
\* The .amt-btn buttons and their data-amount attributes: one preset per
\* positive amount of the model.
amtBtns == 1..MaxAmount
DataAmount(btn) == StrVal(NumberToString(btn))

\* The texts a user may leave in #custom-amount.
CustomInputs ==
  {<<>>, <<"-", "1">>, NumberToString(MaxAmount)}

\* The characters typed into #custom-amount when the selection is looked at
\* on its own, and the texts one edit makes of the text in the field: a
\* character typed at its end, its last character deleted, or all of it
\* deleted. Every edit raises an input event.
InputChars == {"0", "1", "2", "x", "-", "+", " ", "."}
Edits(text) ==
  {Append(text, c) : c \in IF Len(text) < MaxInputLen THEN InputChars ELSE {}}
    \cup (IF text = <<>> THEN {} ELSE {SubSeq(text, 1, Len(text) - 1), <<>>})

\* The texts the handlers write.
TextConnecting == "Dang ket noi ngan hang..."
TextSuccess == "Thanh cong! Cam on ban da ung ho"
TextNotReceived == "Chua nhan duoc tien. Vui long kiem tra lai."
TextConnectionError == "Loi ket noi. Vui long thu lai sau."
LabelChecking == "Dang kiem tra..."
LabelDone == "Da hoan thanh"
LabelAgain == "Xac Nhan Lai"
\* What the markup shows before any handler has run.
TextInitial == ""
LabelInitial == "Xac Nhan"

Sessions == 1..MaxSessions
Outcomes == {"None", "Pending", "Confirmed", "Exhausted", "TransportFailed"}
Terminal == {"Confirmed", "Exhausted", "TransportFailed"}

\* PAYMENT_CONFIG: the account the QR image asks a payment for.
BANK_ID == "970436"
ACCOUNT_NO == "1041228495"
ACCOUNT_NAME == "Nguyen Ho Sy Phu"
TEMPLATE == "compact2"
AddInfo == "Ung ho quy"

\* The URL of the QR image for an amount: the path names bank, account and
\* template, the query holds the amount as String(amount) writes it, the
\* account name and the transfer note.
QrUrl(amount) ==
  [path |-> <<BANK_ID, ACCOUNT_NO, TEMPLATE>>, amount |-> NumberToString(amount),
   accountName |-> ACCOUNT_NAME, addInfo |-> AddInfo]

\* imgQrEl.src = "".
NoSrc == [path |-> <<>>, amount |-> <<>>, accountName |-> "", addInfo |-> ""]

VARIABLES
  currentAmount,   \* let currentAmount
  customInput,     \* #custom-amount .value
  active,          \* the .amt-btn buttons carrying the class active
  qr,              \* #display-amount, #qr-placeholder and #img-qr
  statusText,      \* #payment-status .innerText: the text and the amount in it
  statusClass,     \* #payment-status .className
  btnDisabled,     \* #btn-confirm .disabled
  btnText,         \* #btn-confirm .innerText
  btnOpacity,      \* #btn-confirm .style.opacity
  sessions,        \* the invocations of verifyPayment: locals and position
  last,            \* the handler run that came last: what it was given, and
                   \* the invocation it brought to its return, if it did
  target           \* for each invocation, the amount that was current at its
                   \* submit, where a specification keeps track of it

selector == <<currentAmount, customInput, active, qr>>
status == <<statusText, statusClass>>
button == <<btnDisabled, btnText, btnOpacity>>
vars == <<currentAmount, customInput, active, qr, statusText, statusClass,
          btnDisabled, btnText, btnOpacity, sessions, last, target>>

\* An invocation that has not happened yet.  attempts and isPaid are the
\* locals of verifyPayment; pc is where the invocation is suspended; requests,
\* delays and responses count the fetches issued, the timers started and the
\* fetches settled; firstEqual is the number of the first response holding a
\* row equal to the amount current when it was scanned, failedAt the number
\* of the response that threw (0: none).  The locals and the counts live as
\* long as the invocation: once it has returned, sessions keeps its outcome
\* alone.
NoSession ==
  [pc |-> "idle", attempts |-> 0, isPaid |-> FALSE, outcome |-> "None",
   requests |-> 0, delays |-> 0, responses |-> 0, firstEqual |-> 0, failedAt |-> 0]

Returned(outcome) == [NoSession EXCEPT !.pc = "done", !.outcome = outcome]

\* A handler run: ev is "alert" (a submit refused), "settle" (a fetch settled,
\* kind telling how and sid which invocation's) or "other"; ran is the
\* invocation as it stood at its return when the run brought it there
\* (NoSession otherwise).
Event(ev, sid, kind, ran) == [ev |-> ev, sid |-> sid, kind |-> kind, ran |-> ran]

Init ==
  /\ currentAmount = 0
  /\ customInput = <<>>
  /\ active = {}
  /\ qr = [displayAmount |-> formatPrice(0), placeholder |-> "block",
           img |-> "none", src |-> NoSrc]
  /\ statusText = [text |-> TextInitial, amount |-> <<>>]
  /\ statusClass = "status-text"
  /\ btnDisabled = FALSE
  /\ btnText = LabelInitial
  /\ btnOpacity = "1"
  /\ sessions = [s \in Sessions |-> NoSession]
  /\ last = Event("other", 0, "none", NoSession)
  /\ target = [s \in Sessions |-> 0]

\* ------------------------------------------------------ amount selection
\* renderQR() with the source of the image left as it is when the amount is 0.
renderQRKeepsSrc(amount) ==
  IF amount > 0
  THEN [displayAmount |-> formatPrice(amount), placeholder |-> "none",
        img |-> "block", src |-> QrUrl(amount)]
  ELSE [displayAmount |-> formatPrice(amount), placeholder |-> "block",
        img |-> "none", src |-> qr.src]

\* renderQR(): the amount shown, the placeholder and the image with its URL.
renderQR(amount) ==
  IF amount > 0
  THEN [displayAmount |-> formatPrice(amount), placeholder |-> "none",
        img |-> "block", src |-> QrUrl(amount)]
  ELSE [displayAmount |-> formatPrice(amount), placeholder |-> "block",
        img |-> "none", src |-> NoSrc]

\* A click that keeps the amount of a custom text still in the field.
PresetClickKeepsCustom(btn) ==
  LET amount == ParseInt(DataAmount(btn)) IN
  /\ customInput' = <<>>
  /\ active' = (active \ amtBtns) \cup {btn}
  /\ IF ~amount.nan /\ amount.v > 0 /\ customInput = <<>>
     THEN /\ currentAmount' = amount.v
          /\ qr' = renderQR(amount.v)
     ELSE UNCHANGED <<currentAmount, qr>>
  /\ last' = Event("other", 0, "none", NoSession)
  /\ UNCHANGED <<status, button, sessions>>

\* The click listener of a preset button.
PresetClick(btn) ==
  LET amount == ParseInt(DataAmount(btn)) IN
  /\ customInput' = <<>>
  /\ active' = (active \ amtBtns) \cup {btn}
  /\ IF ~amount.nan /\ amount.v > 0
     THEN /\ currentAmount' = amount.v
          /\ qr' = renderQR(amount.v)
     ELSE UNCHANGED <<currentAmount, qr>>
  /\ last' = Event("other", 0, "none", NoSession)
  /\ UNCHANGED <<status, button, sessions>>

\* An input listener that takes the highlight off only for a valid amount.
CustomInputKeepsActive(value) ==
  LET val == ParseIntStr(value)
      amount == IF ~val.nan /\ val.v > 0 THEN val.v ELSE 0 IN
  /\ customInput' = value
  /\ active' = IF amount > 0 THEN active \ amtBtns ELSE active
  /\ currentAmount' = amount
  /\ qr' = renderQR(amount)
  /\ last' = Event("other", 0, "none", NoSession)
  /\ UNCHANGED <<status, button, sessions>>

\* The input listener of #custom-amount, the field then holding value.
CustomInput(value) ==
  LET val == ParseIntStr(value)
      amount == IF ~val.nan /\ val.v > 0 THEN val.v ELSE 0 IN
  /\ customInput' = value
  /\ active' = active \ amtBtns
  /\ currentAmount' = amount
  /\ qr' = renderQR(amount)
  /\ last' = Event("other", 0, "none", NoSession)
  /\ UNCHANGED <<status, button, sessions>>

\* ------------------------------------------------------- verifyPayment
\* A validation that refuses negative amounts only.
AmountSelectedLoose(amount) == ~(amount < 0)

\* The validation of line 387 lets the handler go on.
AmountSelected(amount) == ~(amount <= 0)

\* attempts kept across invocations: a new one starts from the count the last
\* one returned with.
NewSessionStale ==
  [NoSession EXCEPT !.attempts = last.ran.attempts, !.isPaid = FALSE, !.outcome = "Pending"]

\* let attempts = 0; let isPaid = false;
NewSession == [NoSession EXCEPT !.attempts = 0, !.isPaid = FALSE, !.outcome = "Pending"]

\* The loop condition with <= for <.
LoopCondOffByOne(s) == s.attempts <= MAX_ATTEMPTS /\ ~s.isPaid

\* The condition of the while loop.
LoopCond(s) == s.attempts < MAX_ATTEMPTS /\ ~s.isPaid

\* The head of the loop: another fetch, or on to the result at line 436.
LoopHead(s) ==
  IF LoopCond(s) THEN [s EXCEPT !.pc = "fetch", !.requests = @ + 1]
  ELSE [s EXCEPT !.pc = "result"]

\* The wait taken after every attempt, the last one included.
NotFoundAlwaysWaits(s) ==
  [s EXCEPT !.attempts = @ + 1, !.pc = "delay", !.delays = @ + 1]

\* The promise of the timeout made but not awaited: the loop goes straight on.
NotFoundNoWait(s) == LoopHead([s EXCEPT !.attempts = @ + 1])

\* attempts++ and the wait before the next attempt, except on the last one.
NotFound(s) ==
  LET s1 == [s EXCEPT !.attempts = @ + 1] IN
  IF s1.attempts < MAX_ATTEMPTS
  THEN [s1 EXCEPT !.pc = "delay", !.delays = @ + 1]
  ELSE LoopHead(s1)

\* The match without the break: the rest of the loop body runs.
FoundNoBreak(s) == NotFound([s EXCEPT !.isPaid = TRUE])

\* if (transaction) { isPaid = true; break; }
Found(s) == [s EXCEPT !.isPaid = TRUE, !.pc = "result"]

\* An exception caught inside the loop and taken for an attempt without a match.
ThrownRetries(s) == NotFound(s)

\* An exception inside the try block: control is at the catch clause.
Thrown(s) == [s EXCEPT !.pc = "catch"]

\* data.data.find without the optional chaining: no data property throws.
ScannedStrict(s, kind, scan) ==
  IF kind \in FailureKinds \cup {"nodata"} THEN Thrown(s)
  ELSE IF scan.found THEN Found(s) ELSE NotFound(s)

\* What the handler makes of a settled fetch: kind is how it settled and scan
\* what find made of the array, when there is one.
Scanned(s, kind, scan) ==
  IF kind \in FailureKinds THEN Thrown(s)
  ELSE IF kind = "nodata" THEN NotFound(s)
  ELSE IF scan.found THEN Found(s) ELSE NotFound(s)

\* The update of the page at line 397.
ShowLoading ==
  /\ statusText' = [text |-> TextConnecting, amount |-> <<>>]
  /\ statusClass' = "status-text loading"
  /\ btnDisabled' = TRUE
  /\ btnText' = LabelChecking
  /\ btnOpacity' = "0.7"

\* if (isPaid) { ... }
ShowSuccess ==
  /\ statusText' = [text |-> TextSuccess, amount |-> formatPrice(currentAmount)]
  /\ statusClass' = "status-text success"
  /\ btnText' = LabelDone
  /\ UNCHANGED <<btnDisabled, btnOpacity>>

\* else { ... }
ShowNotReceived ==
  /\ statusText' = [text |-> TextNotReceived, amount |-> <<>>]
  /\ statusClass' = "status-text error"
  /\ btnDisabled' = FALSE
  /\ btnText' = LabelAgain
  /\ btnOpacity' = "1"

\* catch (error) { ... }
ShowConnectionError ==
  /\ statusText' = [text |-> TextConnectionError, amount |-> <<>>]
  /\ statusClass' = "status-text error"
  /\ btnDisabled' = FALSE
  /\ btnOpacity' = "1"
  /\ UNCHANGED btnText

\* The invocation sid has run on to s in a handler run of event ev: it is
\* suspended at an await, or it has reached the result or the catch clause,
\* which write the page and return.
RunTo(sid, s, ev, kind) ==
  CASE s.pc = "result" ->
         LET outcome == IF s.isPaid THEN "Confirmed" ELSE "Exhausted" IN
         /\ IF s.isPaid THEN ShowSuccess ELSE ShowNotReceived
         /\ sessions' = [sessions EXCEPT ![sid] = Returned(outcome)]
         /\ last' = Event(ev, sid, kind, [s EXCEPT !.pc = "done", !.outcome = outcome])
    [] s.pc = "catch" ->
         /\ ShowConnectionError
         /\ sessions' = [sessions EXCEPT ![sid] = Returned("TransportFailed")]
         /\ last' = Event(ev, sid, kind, [s EXCEPT !.pc = "done", !.outcome = "TransportFailed"])
    [] OTHER ->
         /\ sessions' = [sessions EXCEPT ![sid] = s]
         /\ last' = Event(ev, IF ev = "settle" THEN sid ELSE 0, kind, NoSession)
         /\ UNCHANGED <<status, button>>

\* The submit listener of #donate-form, up to its first await.
verifyPayment ==
  IF ~AmountSelected(currentAmount)
  THEN /\ last' = Event("alert", 0, "none", NoSession)
       /\ UNCHANGED <<selector, status, button, sessions>>
  ELSE \E sid \in Sessions :
         /\ sessions[sid].pc = "idle"
         /\ \A j \in 1..(sid - 1) : sessions[j].pc # "idle"
         /\ LET s == LoopHead(NewSession) IN
            IF s.pc = "fetch"
            THEN /\ ShowLoading
                 /\ sessions' = [sessions EXCEPT ![sid] = s]
                 /\ last' = Event("other", 0, "none", NoSession)
            ELSE RunTo(sid, s, "other", "none")
         /\ UNCHANGED selector

\* A handler that clears the amount once the payment is found.
FetchSettledResets(sid, kind, scan) ==
  /\ sessions[sid].pc = "fetch"
  /\ LET s0 == [sessions[sid] EXCEPT
                  !.responses = @ + 1,
                  !.failedAt = IF kind \in FailureKinds THEN sessions[sid].responses + 1 ELSE @,
                  !.firstEqual = IF kind = "array" /\ scan.class = "equal" /\ @ = 0
                                 THEN sessions[sid].responses + 1 ELSE @]
         s1 == Scanned(s0, kind, scan)
     IN /\ RunTo(sid, s1, "settle", IF kind = "array" THEN scan.class ELSE kind)
        /\ currentAmount' = IF s1.isPaid THEN 0 ELSE currentAmount
  /\ UNCHANGED <<customInput, active, qr>>

\* The fetch of invocation sid settles: the handler resumes after its await.
FetchSettled(sid, kind, scan) ==
  /\ sessions[sid].pc = "fetch"
  /\ LET s0 == [sessions[sid] EXCEPT
                  !.responses = @ + 1,
                  !.failedAt = IF kind \in FailureKinds THEN sessions[sid].responses + 1 ELSE @,
                  !.firstEqual = IF kind = "array" /\ scan.class = "equal" /\ @ = 0
                                 THEN sessions[sid].responses + 1 ELSE @]
     IN RunTo(sid, Scanned(s0, kind, scan), "settle", IF kind = "array" THEN scan.class ELSE kind)
  /\ UNCHANGED selector

\* A timer that outlives its invocation and runs the loop once more.
TimerFiredStale(sid) ==
  /\ sessions[sid].pc \in {"delay", "done"}
  /\ RunTo(sid, LoopHead(sessions[sid]), "other", "none")
  /\ UNCHANGED selector

\* A timeout whose callback does not resolve the promise the loop awaits.
TimerFiredUnresolved(sid) ==
  /\ sessions[sid].pc = "delay"
  /\ UNCHANGED <<selector, status, button, sessions, last>>

\* The timer of invocation sid fires: the loop goes round.
TimerFired(sid) ==
  /\ sessions[sid].pc = "delay"
  /\ RunTo(sid, LoopHead(sessions[sid]), "other", "none")
  /\ UNCHANGED selector

NoScan == [found |-> FALSE, class |-> "empty"]

Next ==
  \/ /\ \E btn \in amtBtns : PresetClick(btn)
     /\ UNCHANGED target
  \/ /\ \E value \in CustomInputs : CustomInput(value)
     /\ UNCHANGED target
  \/ /\ verifyPayment
     /\ UNCHANGED target
  \/ /\ \E sid \in Sessions, kind \in FailureKinds \cup {"nodata"} :
          FetchSettled(sid, kind, NoScan)
     /\ UNCHANGED target
  \/ /\ \E sid \in Sessions : \E scan \in ScanResults[currentAmount] :
          FetchSettled(sid, "array", scan)
     /\ UNCHANGED target
  \/ /\ \E sid \in Sessions : TimerFired(sid)
     /\ UNCHANGED target

Spec == Init /\ [][Next]_vars

\* The fetch of invocation sid settles in one of the ways it can.
FetchSettles(sid) ==
  /\ \/ \E kind \in FailureKinds \cup {"nodata"} : FetchSettled(sid, kind, NoScan)
     \/ \E scan \in ScanResults[currentAmount] : FetchSettled(sid, "array", scan)
  /\ UNCHANGED target

\* Every fetch issued settles and every timeout started elapses.
Fairness ==
  \A sid \in Sessions :
    /\ WF_vars(FetchSettles(sid))
    /\ WF_vars(TimerFired(sid) /\ UNCHANGED target)

SpecFair == Spec /\ Fairness

\* The amount that is current when an invocation starts, written down beside
\* the invocation.
TrackTarget ==
  target' = [sid \in Sessions |->
               IF sessions[sid].pc = "idle" /\ sessions'[sid].pc # "idle"
               THEN currentAmount ELSE target[sid]]

\* The same handlers, each invocation with the amount of its submit.
NextTracked ==
  \/ /\ \E btn \in amtBtns : PresetClick(btn)
     /\ UNCHANGED target
  \/ /\ \E value \in CustomInputs : CustomInput(value)
     /\ UNCHANGED target
  \/ /\ verifyPayment
     /\ TrackTarget
  \/ /\ \E sid \in Sessions, kind \in FailureKinds \cup {"nodata"} :
          FetchSettled(sid, kind, NoScan)
     /\ UNCHANGED target
  \/ /\ \E sid \in Sessions : \E scan \in ScanResults[currentAmount] :
          FetchSettled(sid, "array", scan)
     /\ UNCHANGED target
  \/ /\ \E sid \in Sessions : TimerFired(sid)
     /\ UNCHANGED target

SpecTracked == Init /\ [][NextTracked]_vars

\* The amount selection on its own: the two listeners of initPaymentAmount,
\* the custom field edited one character at a time.
NextSelector ==
  \/ /\ \E btn \in amtBtns : PresetClick(btn)
     /\ UNCHANGED target
  \/ /\ \E value \in Edits(customInput) : CustomInput(value)
     /\ UNCHANGED target

SpecSelector == Init /\ [][NextSelector]_vars

\* ------------------------------------------------------------ properties
\* The invocations suspended at an await.
Pending == {sid \in Sessions : sessions[sid].pc \in {"fetch", "delay"}}

\* The invocations whose locals and counts the state holds: the suspended
\* ones, and the one the last handler run brought to its return.
Runs ==
  {sessions[sid] : sid \in Pending} \cup (IF last.ran.pc = "done" THEN {last.ran} ELSE {})

\* The last handler run was a fetch settling in one of the given ways.
Settled(kinds) == last.ev = "settle" /\ last.kind \in kinds

\* C1: an invocation of verifyPayment issues at least one and at most
\* MAX_ATTEMPTS = 5 fetches, and it has exactly one outcome: Pending while it
\* is suspended, and one of Confirmed, Exhausted, TransportFailed once it has
\* returned.
C1_BoundedRequestsOneOutcome ==
  /\ \A r \in Runs :
       /\ r.requests \in 1..MAX_ATTEMPTS
       /\ r.responses <= r.requests
       /\ (r.pc = "done") <=> (r.outcome \in Terminal)
       /\ (r.pc # "done") <=> (r.outcome = "Pending")
  /\ \A sid \in Sessions :
       /\ sessions[sid].outcome \in Outcomes
       /\ (sessions[sid].pc = "done") <=> (sessions[sid].outcome \in Terminal)
       /\ (sessions[sid].pc \in {"fetch", "delay"}) <=> (sessions[sid].outcome = "Pending")
       /\ (sessions[sid].pc = "idle") <=> (sessions[sid].outcome = "None")

\* An invocation has returned after its fifth fetch.
C1_Witness ==
  last.ran.pc = "done" /\ last.ran.requests = MAX_ATTEMPTS /\ last.ran.outcome \in Terminal

\* C2: when no fetch of an invocation has failed and its k-th response is the
\* first to hold a row equal to the current amount, the invocation has issued
\* exactly k fetches, has waited exactly k - 1 delays and is Confirmed.
C2_FirstMatchAtK ==
  \A r \in Runs :
    (r.failedAt = 0 /\ r.firstEqual > 0) =>
      /\ r.outcome = "Confirmed"
      /\ r.responses = r.firstEqual
      /\ r.requests = r.firstEqual
      /\ r.delays = r.firstEqual - 1

\* The match comes with the third response: 3 fetches, 2 delays, Confirmed.
C2_Witness ==
  /\ Settled({"equal"})
  /\ last.ran.firstEqual = 3 /\ last.ran.failedAt = 0
  /\ last.ran.requests = 3 /\ last.ran.delays = 2 /\ last.ran.outcome = "Confirmed"

\* C3: an invocation whose MAX_ATTEMPTS = 5 responses all came without a
\* failure and without a row equal to the current amount has issued exactly 5
\* fetches and is Exhausted; an invocation waits only after attempts 1 to 4,
\* one delay per attempt, and never after the fifth.
C3_ExhaustedAfterFive ==
  \A r \in Runs :
    /\ (r.failedAt = 0 /\ r.firstEqual = 0 /\ r.responses = MAX_ATTEMPTS) =>
         (r.pc = "done" /\ r.outcome = "Exhausted")
    /\ (r.outcome = "Exhausted") =>
         (r.requests = MAX_ATTEMPTS /\ r.responses = MAX_ATTEMPTS /\ r.delays = MAX_ATTEMPTS - 1
          /\ r.failedAt = 0 /\ r.firstEqual = 0)
    /\ (r.pc = "delay") => (r.attempts \in 1..(MAX_ATTEMPTS - 1) /\ r.delays = r.attempts)
    /\ r.delays <= MAX_ATTEMPTS - 1

\* The fifth response holds rows with other amounts only: Exhausted.
C3_Witness ==
  /\ Settled({"other"})
  /\ last.ran.outcome = "Exhausted" /\ last.ran.requests = MAX_ATTEMPTS
  /\ last.ran.delays = MAX_ATTEMPTS - 1

\* The ways a fetch settles without a successful response.
NonSuccess == {"reject", "notok"}

\* C4: a fetch that settles without a successful response (a rejection or a
\* status outside 2xx) at attempt k ends the invocation as TransportFailed in
\* that very handler run: it has issued k fetches and waited k - 1 delays, and
\* neither a fetch nor a timer of it is left.
C4_FailureIsFinal ==
  /\ Settled(NonSuccess) =>
       /\ last.ran.outcome = "TransportFailed"
       /\ last.ran.failedAt = last.ran.responses
       /\ last.ran.requests = last.ran.responses
       /\ last.ran.delays = last.ran.responses - 1
       /\ sessions[last.sid] = Returned("TransportFailed")
  /\ \A r \in Runs : r.failedAt > 0 => (r.pc = "done" /\ r.outcome = "TransportFailed")

\* The first response has a status outside 2xx: one fetch, no delay.
C4_Witness ==
  /\ Settled({"notok"})
  /\ last.ran.outcome = "TransportFailed"
  /\ last.ran.requests = 1 /\ last.ran.delays = 0

\* What a step leaves alone when it starts nothing.
NothingStarted ==
  \A sid \in Sessions : sessions[sid].pc = "idle" => sessions'[sid].pc = "idle"

\* C5: while the current amount is 0 (or less) no step starts an invocation's
\* polling, and a submit reports the validation error and leaves the status
\* text and class, the confirm control, the selection and every invocation as
\* they were.
C5_SubmitWithoutAmount ==
  [][currentAmount <= 0 =>
       /\ NothingStarted
       /\ verifyPayment =>
            (last'.ev = "alert" /\ UNCHANGED <<selector, status, button, sessions>>)]_vars

\* A submit was refused while the page still showed its initial status.
C5_Witness ==
  /\ last.ev = "alert" /\ currentAmount = 0
  /\ statusClass = "status-text" /\ btnDisabled = FALSE /\ btnText = LabelInitial
  /\ \A sid \in Sessions : sessions[sid] = NoSession

\* C6: an invocation is Confirmed only by a successful response holding a row
\* whose amount equals the current amount; a response with no data, with no
\* rows or with rows of other amounts only never confirms.
C6_ExactMatchOnly ==
  /\ \A r \in Runs :
       r.outcome = "Confirmed" => (r.firstEqual > 0 /\ r.firstEqual = r.responses)
  /\ Settled({"nodata", "empty", "other"}) => last.ran.outcome # "Confirmed"
  /\ Settled({"equal"}) => last.ran.outcome = "Confirmed"

\* A response holding rows of other amounts only was taken for no match while
\* an amount was selected: the invocation waits for its next attempt.
C6_Witness ==
  /\ Settled({"other"}) /\ currentAmount > 0
  /\ last.sid \in Pending /\ sessions[last.sid].pc = "delay"

\* C7: at most one invocation of verifyPayment is Pending at any time.
C7_AtMostOnePending == Cardinality(Pending) <= 1

\* C8: when an invocation ends Exhausted or TransportFailed, the handler run
\* that ends it leaves the confirm control enabled and without the label
\* "checking" that the start of an invocation sets.
C8_ErrorRestoresControl ==
  last.ran.outcome \in {"Exhausted", "TransportFailed"} =>
    (btnDisabled = FALSE /\ btnText # LabelChecking)

\* The ways a fetch settles with no usable body.
Malformed == {"badjson", "notarray"}

FirstAttempt ==
  [pc |-> "fetch", attempts |-> 0, isPaid |-> FALSE, outcome |-> "Pending",
   requests |-> 1, delays |-> 0, responses |-> 0, firstEqual |-> 0, failedAt |-> 0]

\* Some invocation has returned.
SomeReturned == \E j \in Sessions : sessions[j].pc = "done"

\* C10: an invocation started after another has returned starts at its first
\* attempt with attempts = 0, whatever the earlier ones did; from then on its
\* attempts count its own responses without a match, and its outcome is the
\* one its own responses give.
C10_FreshSession ==
  /\ [][\A sid \in Sessions :
          (SomeReturned /\ sessions[sid].pc = "idle" /\ sessions'[sid].pc # "idle") =>
            sessions'[sid] = FirstAttempt]_vars
  /\ [](\A sid \in Pending :
          /\ sessions[sid].attempts = sessions[sid].responses
          /\ sessions[sid].requests =
               sessions[sid].attempts + (IF sessions[sid].pc = "fetch" THEN 1 ELSE 0))
  /\ [](last.ran.pc = "done" =>
          /\ last.ran.outcome = "Confirmed" =>
               (last.ran.attempts = last.ran.responses - 1 /\ last.ran.firstEqual = last.ran.responses)
          /\ last.ran.outcome = "TransportFailed" =>
               (last.ran.attempts = last.ran.responses - 1 /\ last.ran.failedAt = last.ran.responses)
          /\ last.ran.outcome = "Exhausted" =>
               (last.ran.attempts = last.ran.responses /\ last.ran.responses = MAX_ATTEMPTS))

\* After the first invocation was Exhausted, the second one went through its
\* own five fetches and was Exhausted in turn.
C10_Witness ==
  /\ sessions[1] = Returned("Exhausted")
  /\ Settled({"empty", "other", "nodata"}) /\ last.sid = 2
  /\ last.ran.outcome = "Exhausted" /\ last.ran.requests = MAX_ATTEMPTS

\* C11: a click on the preset carrying the amount a leaves currentAmount = a,
\* whatever the amount, the custom text and the active preset were before.
C11_PresetSetsTarget ==
  [][\A btn \in amtBtns : PresetClick(btn) => currentAmount' = btn]_vars

\* The largest preset is the active one, the custom field is cleared and the
\* amount is the preset's.
C11_Witness ==
  /\ active = {MaxAmount} /\ customInput = <<>>
  /\ currentAmount = MaxAmount

\* The integer a text denotes in base 10: optional white space and sign, then
\* the longest run of decimal digits; NaN when there is no digit.
ParseBase10(str) ==
  LET s0 == SkipWhite(str)
      neg == s0 # <<>> /\ Head(s0) = "-"
      s1 == IF s0 # <<>> /\ Head(s0) \in {"-", "+"} THEN Tail(s0) ELSE s0
      r == ReadDigits(s1, 10, 0, FALSE)
  IN IF r.nan THEN NaN ELSE IF neg THEN Num(0 - r.v) ELSE r

\* The target a custom text stands for: its base-10 integer when it has one
\* that is positive, and 0 (unset) otherwise.
TargetOfText(str) ==
  IF ~ParseBase10(str).nan /\ ParseBase10(str).v > 0 THEN ParseBase10(str).v ELSE 0

\* C12: after an input event the current amount is the base-10 integer of the
\* text in the custom field when the text has one and it is positive, and 0
\* otherwise, whatever the amount was before.  (No preset is active exactly
\* when the custom field set the amount last, or nothing has.)
C12_CustomAmountBase10 ==
  active = {} => currentAmount = TargetOfText(customInput)

\* C13: the target of an invocation is the amount that was current at its
\* submit: the rows of every response of the invocation are compared with
\* that amount (the amount the scan reads is still that one), and the
\* success text of a Confirmed invocation shows that amount.
C13_TargetFixedAtSubmit ==
  /\ Settled({"other", "equal"}) => currentAmount = target[last.sid]
  /\ (Settled({"equal"}) /\ last.ran.outcome = "Confirmed") =>
       statusText = [text |-> TextSuccess, amount |-> formatPrice(target[last.sid])]

\* C14: an invocation is Confirmed for a positive amount only: in the state
\* the confirming handler run leaves, the amount the rows were compared with
\* is positive and the success text does not show the amount 0.
C14_ConfirmedOnlyPositive ==
  last.ran.outcome = "Confirmed" =>
    (currentAmount > 0 /\ statusText.amount # formatPrice(0))

\* C15: an invocation that has returned (Confirmed, Exhausted or
\* TransportFailed) never moves again: its outcome stays, it issues no fetch
\* and starts no delay; and the status and the confirm control change only in
\* a step taken by an invocation that has not returned yet (a new submit or a
\* suspended invocation resuming).
C15_TerminalIsStable ==
  [][/\ \A sid \in Sessions :
          sessions[sid].pc = "done" => sessions'[sid] = sessions[sid]
     /\ (status' # status \/ button' # button) =>
          \E sid \in Sessions :
            sessions[sid].pc # "done" /\ sessions'[sid] # sessions[sid]]_vars

\* The first invocation has returned with an error and a new submit has
\* started the second one, which put the page into the loading state.
C15_Witness ==
  /\ sessions[1].pc = "done" /\ sessions[1].outcome \in {"Exhausted", "TransportFailed"}
  /\ sessions[2].pc = "fetch" /\ sessions[2].requests = 1
  /\ statusClass = "status-text loading" /\ btnDisabled

\* C16: when every fetch issued settles and every delay started elapses, an
\* invocation that is suspended (started by a submit with a positive amount)
\* eventually returns with Confirmed, Exhausted or TransportFailed; it does
\* not stay Pending for ever.
C16_PendingLeadsToTerminal ==
  \A sid \in Sessions :
    (sessions[sid].pc \in {"fetch", "delay"}) ~>
      (sessions[sid].pc = "done" /\ sessions[sid].outcome \in Terminal)

\* Every invocation the page can start has returned, the last of them after
\* waiting through all four delays.
C16_Witness ==
  /\ \A sid \in Sessions : sessions[sid].pc = "done"
  /\ last.ran.pc = "done" /\ last.ran.delays = MAX_ATTEMPTS - 1

\* C17: the attempts of one invocation are strictly sequential. At most one
\* of its fetches is outstanding, and that only while it is suspended at the
\* fetch; and when it has issued k + 1 fetches, the first k have all been
\* answered, none of those answers failed or held a row equal to the current
\* amount, and k delays have elapsed.
C17_AttemptsSequential ==
  \A r \in Runs :
    /\ r.requests - r.responses = (IF r.pc = "fetch" THEN 1 ELSE 0)
    /\ r.responses >= r.requests - 1
    /\ r.failedAt = 0 \/ r.failedAt >= r.requests
    /\ r.firstEqual = 0 \/ r.firstEqual >= r.requests
    /\ r.pc = "fetch" => r.delays = r.requests - 1
    /\ r.pc = "delay" => r.delays = r.requests
    /\ r.pc = "done" => r.delays >= r.requests - 1

\* The third fetch of an invocation is outstanding: two answers without a
\* match have come and two delays have elapsed.
C17_Witness ==
  \E sid \in Sessions :
    /\ sessions[sid].pc = "fetch"
    /\ sessions[sid].requests = 3 /\ sessions[sid].responses = 2
    /\ sessions[sid].delays = 2

\* C18: whenever some invocation is Pending the confirm control is disabled
\* and the status shows the loading presentation.
C18_PendingShowsLoading ==
  Pending # {} => (btnDisabled /\ statusClass = "status-text loading")

\* C19: when an invocation has just returned, the page shows its outcome: the
\* status has the success class exactly when the outcome is Confirmed, and
\* then the confirm control is still disabled; the status has the error class
\* and the control is enabled again exactly when the outcome is Exhausted or
\* TransportFailed, with the 'not yet received' text for the one and the
\* 'connection failure' text for the other, the two texts being different.
C19_PresentationMatchesOutcome ==
  last.ran.pc = "done" =>
    /\ (statusClass = "status-text success") <=> (last.ran.outcome = "Confirmed")
    /\ (last.ran.outcome = "Confirmed") => btnDisabled
    /\ (statusClass = "status-text error" /\ ~btnDisabled) <=>
         (last.ran.outcome \in {"Exhausted", "TransportFailed"})
    /\ (last.ran.outcome = "Exhausted") => statusText.text = TextNotReceived
    /\ (last.ran.outcome = "TransportFailed") => statusText.text = TextConnectionError
    /\ TextNotReceived # TextConnectionError

\* The QR display agrees with the current amount: the placeholder is shown
\* and the image is hidden without a source exactly when the amount is 0;
\* otherwise the image is shown and its URL names the configured bank,
\* account, template and account name, with an amount parameter that reads
\* back as the current amount.
QrAgrees ==
  /\ (currentAmount = 0) <=> (qr.placeholder = "block" /\ qr.img = "none")
  /\ (currentAmount = 0) <=> (qr.src = NoSrc)
  /\ (currentAmount # 0) <=> (qr.placeholder = "none" /\ qr.img = "block")
  /\ (currentAmount # 0) =>
       /\ ~ParseBase10(qr.src.amount).nan
       /\ ParseBase10(qr.src.amount).v = currentAmount
       /\ qr.src.path = <<BANK_ID, ACCOUNT_NO, TEMPLATE>>
       /\ qr.src.accountName = ACCOUNT_NAME

\* C20: after every preset click and every input in the custom field, the QR
\* display agrees with the current amount (QrAgrees holds in the state the
\* handler leaves).
C20_QrAgreesWithTarget == [][QrAgrees']_vars

\* A custom text has set an amount that no preset offers: no preset is
\* active and the image is on display with the URL for that amount.
C20_Witness ==
  /\ active = {} /\ customInput # <<>>
  /\ currentAmount > MaxAmount
  /\ qr.img = "block" /\ qr.src = QrUrl(currentAmount)

\* A step of verifyPayment: the submit listener up to its first await, or the
\* handler resuming when a fetch settles or a timer fires.
ConfirmStep ==
  \/ verifyPayment
  \/ \E sid \in Sessions, kind \in FailureKinds \cup {"nodata"} :
       FetchSettled(sid, kind, NoScan)
  \/ \E sid \in Sessions : \E scan \in ScanResults[currentAmount] :
       FetchSettled(sid, "array", scan)
  \/ \E sid \in Sessions : TimerFired(sid)

\* C21: no step of verifyPayment (validation, fetch, scan of the answer,
\* delay, result or catch clause) changes currentAmount; a step that changes
\* it is a preset click or an input in the custom field.
C21_OnlySelectorWritesAmount ==
  [][/\ ConfirmStep => currentAmount' = currentAmount
     /\ currentAmount' # currentAmount =>
          \/ \E btn \in amtBtns : PresetClick(btn)
          \/ \E value \in CustomInputs : CustomInput(value)]_vars

\* An invocation has just ended Confirmed through a preset amount that is
\* still the current one.
C21_Witness ==
  /\ Settled({"equal"}) /\ last.ran.outcome = "Confirmed"
  /\ active = {MaxAmount} /\ currentAmount = MaxAmount

\* C22: every preset click and every input in the custom field leaves at most
\* one preset button active. A click on a preset leaves exactly that button
\* active, the custom field empty and currentAmount equal to the preset's
\* amount; an input in the custom field leaves no preset button active,
\* whether its text gives a valid amount or not.
C22_OnePresetActive ==
  [][/\ Cardinality(active') <= 1
     /\ \A btn \in amtBtns :
          PresetClick(btn) =>
            (active' = {btn} /\ customInput' = <<>> /\ currentAmount' = btn)
     /\ \A value \in Edits(customInput) :
          CustomInput(value) => active' = {}]_vars

\* The custom field holds a text that is no number: no preset is active and
\* no amount is selected.
C22_Witness ==
  /\ customInput # <<>> /\ ParseIntStr(customInput).nan
  /\ active = {} /\ currentAmount = 0

====
